---------------------------- MODULE Spec2Model ----------------------------
(***************************************************************************)
(* Model of the bridge front-end:                                          *)
(*   - src/api/index.js       the fee quote handler (serverless function)  *)
(*   - src/unnamed/part_000   the CoinSelection form (React component)     *)
(* The two programs share nothing; each has its own variables and its own  *)
(* specification (SpecApi, SpecUI).                                        *)
(***************************************************************************)
EXTENDS Integers, Sequences, FiniteSets, TLC

(***************************************************************************)
(* Text is modelled as a sequence of one-character strings, so that the    *)
(* conversions (toString, parseUnits, formatUnits) are computed digit by   *)
(* digit.                                                                  *)
(***************************************************************************)
Digits == <<"0", "1", "2", "3", "4", "5", "6", "7", "8", "9">>

DigitChar(d) == Digits[d + 1]

IsDigit(c) == \E i \in 1..10 : Digits[i] = c

DigitVal(c) == (CHOOSE i \in 1..10 : Digits[i] = c) - 1

RECURSIVE NatToString(_)
\* BigNumber.toString() / Number.toString() of a natural number: decimal
\* digits, no leading zero.
NatToString(n) ==
    IF n < 10 THEN <<DigitChar(n)>>
    ELSE Append(NatToString(n \div 10), DigitChar(n % 10))

(***************************************************************************)
(*                    PART 1: src/api/index.js                             *)
(***************************************************************************)

\* ---- bounds of the handler model ----
\* the longest list of events the whitelist query returns
MaxEvents == 3
BlockNumbers == {9, 10}
TransactionIndexes == {0, 1}
LogIndexes == {0, 1}
\* chain ids carried by the whitelist events
EventChainIds == {10, 288}

\* sdk.across.constants.ADDRESSES
WETH == "0xWETH"
ETH == "0xETH"
DAI == "0xDAI"
L1Tokens == {WETH, DAI}
L2Tokens == {<<"A">>}

\* query parameters as the framework hands them over: absent, a string, or
\* an array of strings (a repeated parameter)
Undefined == [type |-> "undefined"]
Str(s) == [type |-> "string", value |-> s]
Arr(s) == [type |-> "object", value |-> s]

\* typeof input === "string"
isString(input) == input.type = "string"

AmountParams == {Undefined, Str(<<"1">>), Arr(<<"1", "2">>)}
L2TokenParams == {Undefined, Str(<<"A">>)}
ChainIdParams == {Undefined, Str(<<"1", "0">>), Str(<<"1">>), Arr(<<"1", "0">>)}

\* the SDK's deposit fee details (slow pct, instant pct)
FeeDetails == {[slow |-> 1, instant |-> 2], [slow |-> 3, instant |-> 3]}

VARIABLES
    query,          \* request.query: amount, l2Token, chainId
    apc,            \* the handler's position
    provider,       \* TRUE once the JsonRpcProvider object is constructed
    returned,       \* what bridgeAdmin.queryFilter returned (query order), or <<>>
    queried,        \* number of whitelist event queries made
    selected,       \* the event getTokenDetails picked, or NoEvent
    feeCall,        \* arguments of the getDepositFeesDetails call, or NoCall
    feeResult,      \* what the SDK returned, or NoCall
    response,       \* what was written to the response, or NoResponse
    thrown          \* the message of the Error the handler rejected with, or ""

apiVars == <<query, apc, provider, returned, queried, selected, feeCall,
             feeResult, response, thrown>>

VARIABLES
    fromChain, toChain,   \* useSend: the chains
    token,                \* useSend: the stored token address
    amount,               \* useSend: the committed amount
    fees,                 \* useSend: the fee quote, or NoFees
    balances,             \* useBalances: data, or NoBalances
    error,                \* React state: error
    inputAmount,          \* React state: the input text
    selectedItem,         \* useSelect state: the selected item, or NoItem
    mounted,              \* FALSE until the first commit
    dsPrev,               \* useSelect: the selected item its change effect saw last
    e1Deps,               \* dependencies the selectItem effect ran with last
    e2Deps,               \* dependencies the balance effect ran with last
    lastEvent,            \* the last event handled (history)
    commits,              \* commits since the last event (history)
    changed               \* onSelectedItemChange has run since the last event (history)

uiVars == <<fromChain, toChain, token, amount, fees, balances, error, inputAmount,
            selectedItem, mounted, dsPrev, e1Deps, e2Deps, lastEvent, commits,
            changed>>

vars == <<apiVars, uiVars>>

NoEvent == [none |-> TRUE]
NoCall == [none |-> TRUE]
NoResponse == [none |-> TRUE]

\* a WhitelistToken event: args (chainId, l1Token, l2Token) and its place
\* in the chain
Events(l2Token) ==
    [chainId : EventChainIds, l1Token : L1Tokens,
     l2Token : IF isString(l2Token) THEN {l2Token.value} ELSE L2Tokens,
     blockNumber : BlockNumbers, transactionIndex : TransactionIndexes,
     logIndex : LogIndexes]

\* a log index is unique within its block
SamePlace(e, f) == e.blockNumber = f.blockNumber /\ e.logIndex = f.logIndex

\* the lists of at most n events of E at distinct places, in any order
EventLists(E, n) ==
    UNION {{evs \in [1..k -> E] :
               \A i, j \in 1..k : i < j => ~SamePlace(evs[i], evs[j])} : k \in 0..n}

\* the possible results of queryFilter(WhitelistToken(_, _, l2Token), 0, "latest"):
\* events of that l2Token, in any order
QueryResults(l2Token) == EventLists(Events(l2Token), MaxEvents)

\* the comparator with the log index compared before the transaction index
SortCompare_logFirst(a, b) ==
    IF b.blockNumber # a.blockNumber THEN b.blockNumber - a.blockNumber
    ELSE IF b.logIndex # a.logIndex
         THEN b.logIndex - a.logIndex
         ELSE b.transactionIndex - a.transactionIndex

\* the comparator handed to events.sort: negative when a goes first
SortCompare(a, b) ==
    IF b.blockNumber # a.blockNumber THEN b.blockNumber - a.blockNumber
    ELSE IF b.transactionIndex # a.transactionIndex
         THEN b.transactionIndex - a.transactionIndex
         ELSE b.logIndex - a.logIndex

RECURSIVE InsertSorted(_, _)
InsertSorted(e, sorted) ==
    IF sorted = <<>> THEN <<e>>
    ELSE IF SortCompare(e, Head(sorted)) < 0
         THEN <<e>> \o sorted
         ELSE <<Head(sorted)>> \o InsertSorted(e, Tail(sorted))

RECURSIVE SortEvents(_)
\* Array.prototype.sort with SortCompare (stable)
SortEvents(evs) ==
    IF evs = <<>> THEN <<>>
    ELSE InsertSorted(evs[Len(evs)], SortEvents(SubSeq(evs, 1, Len(evs) - 1)))

\* the filter without its chain id test
FilterByChainId_keepAll(evs, chainId) == evs

\* .filter((event) => event.args.chainId.toString() === chainId)
\* (strict equality: a parameter that is not a string equals no string)
FilterByChainId(evs, chainId) ==
    SelectSeq(evs, LAMBDA e : Str(NatToString(e.chainId)) = chainId)

ApiInit ==
    /\ query \in [amount : AmountParams, l2Token : L2TokenParams,
                  chainId : ChainIdParams]
    /\ apc = "start"
    /\ provider = FALSE
    /\ returned = <<>>
    /\ queried = 0
    /\ selected = NoEvent
    /\ feeCall = NoCall
    /\ feeResult = NoCall
    /\ response = NoResponse
    /\ thrown = ""

\* the validation with the amount test left out
Validate_noAmountTest ==
    /\ apc = "start"
    /\ provider' = TRUE
    /\ IF ~isString(query.l2Token) \/ ~isString(query.chainId)
       THEN /\ thrown' = "Must provide amount and token as query params"
            /\ apc' = "rejected"
       ELSE /\ thrown' = thrown
            /\ apc' = "getTokenDetails"
    /\ UNCHANGED <<query, returned, queried, selected, feeCall, feeResult, response>>
    /\ UNCHANGED uiVars

\* handler, lines 7-11: construct the provider, validate the query
Validate ==
    /\ apc = "start"
    /\ provider' = TRUE
    /\ IF ~isString(query.amount) \/ ~isString(query.l2Token) \/ ~isString(query.chainId)
       THEN /\ thrown' = "Must provide amount and token as query params"
            /\ apc' = "rejected"
       ELSE /\ thrown' = thrown
            /\ apc' = "getTokenDetails"
    /\ UNCHANGED <<query, returned, queried, selected, feeCall, feeResult, response>>
    /\ UNCHANGED uiVars

\* getTokenDetails, lines 27-48: query, filter by chain id, sort, take the first
GetTokenDetails ==
    /\ apc = "getTokenDetails"
    /\ \E evs \in QueryResults(query.l2Token) :
          LET events == FilterByChainId(evs, query.chainId)
          IN /\ returned' = evs
             /\ queried' = queried + 1
             /\ IF Len(events) = 0
                THEN /\ thrown' = "No whitelisted token found"
                     /\ apc' = "rejected"
                     /\ selected' = selected
                ELSE /\ selected' = SortEvents(events)[1]
                     /\ apc' = "getDepositFeesDetails"
                     /\ thrown' = thrown
    /\ UNCHANGED <<query, provider, feeCall, feeResult, response>>
    /\ UNCHANGED uiVars

\* handler, lines 13-15: the SDK computes the fees for the resolved L1 token
GetDepositFeesDetails ==
    /\ apc = "getDepositFeesDetails"
    /\ LET l1Token == selected.l1Token
       IN feeCall' = [amount |-> query.amount,
                      token |-> IF l1Token = WETH THEN ETH ELSE l1Token]
    /\ feeResult' \in FeeDetails
    /\ apc' = "respond"
    /\ UNCHANGED <<query, provider, returned, queried, selected, response, thrown>>
    /\ UNCHANGED uiVars

\* handler, lines 18-23: response.status(200).json(responseJson)
Respond ==
    /\ apc = "respond"
    /\ response' = [status |-> 200,
                    json |-> [slowFeePct |-> feeResult.slow,
                              fastFeePct |-> feeResult.instant]]
    /\ apc' = "done"
    /\ UNCHANGED <<query, provider, returned, queried, selected, feeCall,
                   feeResult, thrown>>
    /\ UNCHANGED uiVars

ApiNext == Validate \/ GetTokenDetails \/ GetDepositFeesDetails \/ Respond

\* the form is not part of the handler's runs
UiIdle ==
    /\ fromChain = 10 /\ toChain = 1 /\ token = "0x0000" /\ amount = 0
    /\ fees = [none |-> TRUE] /\ balances = <<-1, -1, -1>>
    /\ error = "undefined" /\ inputAmount = <<>> /\ selectedItem = [none |-> TRUE]
    /\ mounted = FALSE /\ dsPrev = [none |-> TRUE] /\ e1Deps = <<>> /\ e2Deps = <<>>
    /\ lastEvent = "mount" /\ commits = 0 /\ changed = FALSE

InitApi == ApiInit /\ UiIdle

SpecApi == InitApi /\ [][ApiNext]_vars

(***************************************************************************)
(*                 PART 2: src/unnamed/part_000 (CoinSelection)            *)
(***************************************************************************)

\* ---- bounds of the form model ----
\* decimals of ETH and WETH (18 in the token list; scaled down so that
\* amounts fit the model checker's integers) and of USDC (6, scaled down)
EtherDecimals == 3
UsdcDecimals == 1

RECURSIVE Pow10(_)
Pow10(d) == IF d = 0 THEN 1 ELSE 10 * Pow10(d - 1)

\* ---- text helpers ----
RECURSIVE DigitsToNat(_)
\* BigNumber.from of a string of digits
DigitsToNat(s) ==
    IF s = <<>> THEN 0
    ELSE 10 * DigitsToNat(SubSeq(s, 1, Len(s) - 1)) + DigitVal(s[Len(s)])

RECURSIVE TrimTrailingZeros(_)
TrimTrailingZeros(s) ==
    IF s # <<>> /\ s[Len(s)] = "0" THEN TrimTrailingZeros(SubSeq(s, 1, Len(s) - 1))
    ELSE s

RECURSIVE PadRight(_, _)
PadRight(s, n) == IF Len(s) >= n THEN s ELSE PadRight(Append(s, "0"), n)

RECURSIVE PadLeft(_, _)
PadLeft(s, n) == IF Len(s) >= n THEN s ELSE PadLeft(<<"0">> \o s, n)

DotPlaces(s) == {i \in 1..Len(s) : s[i] = "."}

Failed == [ok |-> FALSE]
Parsed(n) == [ok |-> TRUE, value |-> n]

\* utils.parseUnits(value, decimals): the decimal string scaled by 10^decimals,
\* or a failure where the library throws
parseUnits(value, decimals) ==
    LET negative == value # <<>> /\ value[1] = "-"
        body == IF negative THEN Tail(value) ELSE value
        dots == DotPlaces(body)
    IN IF body = <<>> \/ \E i \in 1..Len(body) : ~IsDigit(body[i]) /\ body[i] # "."
       THEN Failed                                  \* invalid decimal value
       ELSE IF body = <<".">> THEN Failed           \* missing value
       ELSE IF Cardinality(dots) > 1 THEN Failed    \* too many decimal points
       ELSE LET dot == IF dots = {} THEN Len(body) + 1 ELSE CHOOSE i \in dots : TRUE
                whole == SubSeq(body, 1, dot - 1)
                fraction == TrimTrailingZeros(SubSeq(body, dot + 1, Len(body)))
            IN IF Len(fraction) > decimals
               THEN Failed                          \* fractional component exceeds decimals
               ELSE LET wei == DigitsToNat(whole) * Pow10(decimals)
                               + DigitsToNat(PadRight(fraction, decimals))
                    IN Parsed(IF negative THEN 0 - wei ELSE wei)

\* utils.formatUnits(wei, decimals): whole "." fraction, the fraction without
\* trailing zeros but never empty
formatUnits(wei, decimals) ==
    LET negative == wei < 0
        value == IF negative THEN 0 - wei ELSE wei
        padded == PadLeft(NatToString(value % Pow10(decimals)), decimals)
        trimmed == TrimTrailingZeros(padded)
        fraction == IF trimmed = <<>> THEN <<"0">> ELSE trimmed
        whole == NatToString(value \div Pow10(decimals))
        text == IF decimals = 0 THEN whole ELSE whole \o <<".">> \o fraction
    IN IF negative THEN <<"-">> \o text ELSE text

\* utils.max
max(a, b) == IF a > b THEN a ELSE b

\* const FEE_ESTIMATION = ".004"
FEE_ESTIMATION == <<".", "0", "0", "4">>

\* ethers.utils.parseEther
parseEther(ether) == parseUnits(ether, EtherDecimals).value

\* ---- the bridgeable token lists ----
AddressZero == "0x0000"
Token(address, symbol, decimals, ref) ==
    [address |-> address, symbol |-> symbol, decimals |-> decimals, ref |-> ref]

\* the token descriptors of a chain; ref stands for the identity of the
\* descriptor object (ETH has the same address on every chain, but each
\* chain's list holds its own object)
TokensOf(chain) ==
    IF chain = 10
    THEN <<Token(AddressZero, "ETH", EtherDecimals, 10),
           Token("0xUSDC", "USDC", UsdcDecimals, 10)>>
    ELSE <<Token("0xWETH", "WETH", EtherDecimals, 42161),
           Token(AddressZero, "ETH", EtherDecimals, 42161)>>

FromChains == {10, 42161}
ToChains == {1, 10}
Addresses == {AddressZero, "0xUSDC", "0xWETH"}

\* utils.getBridgeableTokens(fromChain, toChain)
getBridgeableTokens(from, to) ==
    IF from = to THEN <<>>
    ELSE SelectSeq(TokensOf(from), LAMBDA t : to # 1 \/ t.symbol # "WETH")

\* ---- inputs ----
InputTexts ==
    {<<>>, <<"5">>, <<".", "0", "0", "5">>, <<"-", "1">>, <<"5", "x">>}

NoBalance == -1
BalanceValues == {3, 5000}
NoBalances == <<NoBalance, NoBalance, NoBalance>>
\* what useBalances hands over: nothing yet, or one entry per token of the
\* list snapshot the balances were requested for (an entry may be missing)
BalanceSets ==
    {NoBalances} \cup
    UNION {[1..n -> BalanceValues \cup {NoBalance}] : n \in 1..2}

NoFees == [none |-> TRUE]
FeeSets ==
    {NoFees} \cup [isAmountTooLow : BOOLEAN, isLiquidityInsufficient : BOOLEAN]

NoItem == [none |-> TRUE]
NoError == "undefined"
ParsingError == "ParsingError"
InsufficientBalance == "Insufficient balance."

\* const tokenList = useMemo(() => getBridgeableTokens(fromChain, toChain), ...)
tokenList == getBridgeableTokens(fromChain, toChain)

\* tokenList.findIndex(({ address }) => address === a), counted from 1; 0 when absent
findIndex(list, a) ==
    IF \E i \in 1..Len(list) : list[i].address = a
    THEN CHOOSE i \in 1..Len(list) :
            /\ list[i].address = a
            /\ \A j \in 1..(i - 1) : list[j].address # a
    ELSE 0

\* tokenList.find((t) => t.address === a); NoItem for undefined
find(list, a) == IF findIndex(list, a) = 0 THEN NoItem ELSE list[findIndex(list, a)]

\* balances[selectedIndex]; NoBalance for undefined
BalanceAt(bs, i) == IF i >= 1 /\ i <= Len(bs) /\ bs # NoBalances THEN bs[i] ELSE NoBalance

Deps1 == <<token, fromChain, toChain>>
Deps2 == <<balances, amount, token, fromChain, toChain, inputAmount>>

UiInit ==
    /\ fromChain \in FromChains
    /\ toChain \in ToChains
    /\ token \in Addresses
    /\ amount \in {0, 5}
    /\ fees = NoFees
    /\ balances = NoBalances
    /\ error = NoError
    \* useSelect: defaultSelectedItem
    /\ selectedItem = find(tokenList, token)
    \* useState: the initial input text
    /\ inputAmount = IF selectedItem # NoItem /\ amount > 0
                     THEN formatUnits(amount, selectedItem.decimals)
                     ELSE <<>>
    /\ mounted = FALSE
    /\ dsPrev = NoItem
    /\ e1Deps = <<>>
    /\ e2Deps = <<>>
    /\ lastEvent = "mount"
    /\ commits = 0
    /\ changed = FALSE

\* ---- rendering ----
RunsDs == mounted /\ selectedItem # dsPrev
RunsEffect1 == ~mounted \/ e1Deps # Deps1
RunsEffect2 == ~mounted \/ e2Deps # Deps2

\* nothing is left to commit: every effect has seen the current state
Settled == mounted /\ ~RunsDs /\ ~RunsEffect1 /\ ~RunsEffect2

\* useSelect calls onSelectedItemChange from its effect when the selected
\* item differs from the one it saw last and is not undefined
FiresOnSelectedItemChange == RunsDs /\ selectedItem # NoItem

\* the balance effect without the fee buffer of the native asset
BalanceEffectError_noBuffer(e) ==
    IF inputAmount # <<>>
    THEN LET cleared == IF e = ParsingError THEN e ELSE NoError
             selectedIndex == findIndex(tokenList, token)
             balance == BalanceAt(balances, selectedIndex)
         IN IF /\ balances # NoBalances
               /\ amount > 0
               /\ balance # NoBalance
               /\ amount > balance
            THEN InsufficientBalance
            ELSE cleared
    ELSE e

\* the balance effect, lines 103-131: the error it leaves, given the error
\* the earlier updates of the same commit left
BalanceEffectError(e) ==
    IF inputAmount # <<>>
    THEN LET cleared == IF e = ParsingError THEN e ELSE NoError
             selectedIndex == findIndex(tokenList, token)
             balance == BalanceAt(balances, selectedIndex)
             isEth == selectedIndex # 0 /\ tokenList[selectedIndex].symbol = "ETH"
         IN IF /\ balances # NoBalances
               /\ amount > 0
               /\ balance # NoBalance
               /\ amount > (IF isEth THEN balance - parseEther(FEE_ESTIMATION) ELSE balance)
            THEN InsufficientBalance
            ELSE cleared
    ELSE e

\* onSelectedItemChange without its setError(undefined)
OnSelectedItemChange_keepsError ==
    [inputAmount |-> <<>>, error |-> error, amount |-> 0,
     token |-> selectedItem.address]

\* onSelectedItemChange, lines 60-68, for a defined selected item: the
\* state it sets
OnSelectedItemChange ==
    [inputAmount |-> <<>>, error |-> NoError, amount |-> 0,
     token |-> selectedItem.address]

\* the selectItem effect without its fallback to the first element
SelectItemTarget_noFallback == find(tokenList, token)

\* the selectItem effect, lines 71-73:
\* tokenList.find((t) => t.address === token) ?? tokenList[0]
SelectItemTarget ==
    IF find(tokenList, token) # NoItem THEN find(tokenList, token)
    ELSE IF tokenList # <<>> THEN tokenList[1] ELSE NoItem

\* one render and the effects it triggers, in the order of the hooks:
\* useSelect's change effect (onSelectedItemChange, lines 60-68), the
\* selectItem effect (lines 71-73), the balance effect (lines 103-131).
\* Each effect reads the values of this render; the state updates take
\* effect together afterwards, the updates of error in the order made.
Commit ==
    /\ ~Settled
    /\ LET fire == FiresOnSelectedItemChange
           afterSelect == IF fire THEN OnSelectedItemChange.error ELSE error
       IN /\ inputAmount' = IF fire THEN OnSelectedItemChange.inputAmount ELSE inputAmount
          /\ amount' = IF fire THEN OnSelectedItemChange.amount ELSE amount
          /\ token' = IF fire THEN OnSelectedItemChange.token ELSE token
          /\ error' = IF RunsEffect2 THEN BalanceEffectError(afterSelect) ELSE afterSelect
          /\ selectedItem' = IF RunsEffect1 THEN SelectItemTarget ELSE selectedItem
          /\ changed' = (changed \/ fire)
    /\ mounted' = TRUE
    /\ dsPrev' = selectedItem
    /\ e1Deps' = Deps1
    /\ e2Deps' = Deps2
    /\ commits' = commits + 1
    /\ UNCHANGED <<fromChain, toChain, fees, balances, lastEvent>>
    /\ UNCHANGED apiVars

Event(name) ==
    /\ Settled
    /\ lastEvent' = name
    /\ commits' = 0
    /\ changed' = FALSE
    /\ UNCHANGED <<mounted, dsPrev, e1Deps, e2Deps>>
    /\ UNCHANGED apiVars

\* handleChange without the test for a negative amount
handleChange_acceptsNegative(value) ==
    /\ Event("handleChange")
    /\ value # inputAmount
    /\ inputAmount' = value
    /\ IF value = <<>>
       THEN /\ amount' = 0
            /\ error' = NoError
       ELSE LET parsed == IF selectedItem = NoItem THEN Failed
                          ELSE parseUnits(value, selectedItem.decimals)
            IN IF parsed.ok
               THEN /\ amount' = parsed.value
                    /\ error' = IF error = ParsingError THEN NoError ELSE error
               ELSE /\ amount' = amount
                    /\ error' = ParsingError
    /\ UNCHANGED <<fromChain, toChain, token, fees, balances, selectedItem>>

\* handleChange, lines 81-100
handleChange(value) ==
    /\ Event("handleChange")
    /\ value # inputAmount
    /\ inputAmount' = value
    /\ IF value = <<>>
       THEN /\ amount' = 0
            /\ error' = NoError
       ELSE LET parsed == IF selectedItem = NoItem THEN Failed
                          ELSE parseUnits(value, selectedItem.decimals)
            IN IF parsed.ok /\ parsed.value >= 0
               THEN /\ amount' = parsed.value
                    /\ error' = IF error = ParsingError THEN NoError ELSE error
               ELSE /\ amount' = amount
                    /\ error' = ParsingError
    /\ UNCHANGED <<fromChain, toChain, token, fees, balances, selectedItem>>

\* handleMaxClick without the floor at zero
handleMaxClick_noFloor ==
    /\ Event("handleMaxClick")
    /\ LET selectedIndex == IF selectedItem = NoItem THEN 0
                            ELSE findIndex(tokenList, selectedItem.address)
           balance == BalanceAt(balances, selectedIndex)
       IN IF balances # NoBalances /\ selectedItem # NoItem /\ selectedIndex # 0
          THEN LET isEth == tokenList[selectedIndex].symbol = "ETH"
                   maxAmount == IF balance = NoBalance THEN 0
                                ELSE IF isEth
                                     THEN balance - parseEther(FEE_ESTIMATION)
                                     ELSE balance
               IN /\ amount' = maxAmount
                  /\ inputAmount' = formatUnits(maxAmount, selectedItem.decimals)
          ELSE UNCHANGED <<amount, inputAmount>>
    /\ UNCHANGED <<fromChain, toChain, token, fees, balances, error, selectedItem>>

\* handleMaxClick, lines 133-157
handleMaxClick ==
    /\ Event("handleMaxClick")
    /\ LET selectedIndex == IF selectedItem = NoItem THEN 0
                            ELSE findIndex(tokenList, selectedItem.address)
           balance == BalanceAt(balances, selectedIndex)
       IN IF balances # NoBalances /\ selectedItem # NoItem /\ selectedIndex # 0
          THEN LET isEth == tokenList[selectedIndex].symbol = "ETH"
                   maxAmount == IF balance = NoBalance THEN 0
                                ELSE IF isEth
                                     THEN max(balance - parseEther(FEE_ESTIMATION), 0)
                                     ELSE balance
               IN /\ amount' = maxAmount
                  /\ inputAmount' = formatUnits(maxAmount, selectedItem.decimals)
          ELSE UNCHANGED <<amount, inputAmount>>
    /\ UNCHANGED <<fromChain, toChain, token, fees, balances, error, selectedItem>>

\* a click on an item of the menu (getItemProps): useSelect selects it
ItemClick(index) ==
    /\ Event("itemClick")
    /\ index \in 1..Len(tokenList)
    /\ selectedItem' = tokenList[index]
    /\ UNCHANGED <<fromChain, toChain, token, amount, fees, balances, error,
                   inputAmount>>

\* the store's source or destination chain changes
SetChains(from, to) ==
    /\ Event("setChains")
    /\ <<from, to>> # <<fromChain, toChain>>
    /\ fromChain' = from
    /\ toChain' = to
    /\ UNCHANGED <<token, amount, fees, balances, error, inputAmount, selectedItem>>

\* useBalances delivers data
SetBalances(data) ==
    /\ Event("setBalances")
    /\ data # balances
    /\ balances' = data
    /\ UNCHANGED <<fromChain, toChain, token, amount, fees, error, inputAmount,
                   selectedItem>>

\* the store's fee quote changes
SetFees(quote) ==
    /\ Event("setFees")
    /\ quote # fees
    /\ fees' = quote
    /\ UNCHANGED <<fromChain, toChain, token, amount, balances, error, inputAmount,
                   selectedItem>>

UiNext ==
    \/ Commit
    \/ \E value \in InputTexts : handleChange(value)
    \/ handleMaxClick
    \/ \E index \in 1..2 : ItemClick(index)
    \/ \E from \in FromChains, to \in ToChains : SetChains(from, to)
    \/ \E data \in BalanceSets : SetBalances(data)
    \/ \E quote \in FeeSets : SetFees(quote)

\* no request is part of the form's runs
ApiIdle ==
    /\ query = [amount |-> Undefined, l2Token |-> Undefined, chainId |-> Undefined]
    /\ apc = "idle" /\ provider = FALSE /\ returned = <<>> /\ queried = 0
    /\ selected = NoEvent /\ feeCall = NoCall /\ feeResult = NoCall
    /\ response = NoResponse /\ thrown = ""

InitUI == UiInit /\ ApiIdle

SpecUI == InitUI /\ [][UiNext]_vars

FeeTooHighMsg == "Bridge fee is high for this amount. Send a larger amount."
NoLiquidityMsg == "Insufficient liquidity"
NoMsg == "none"

isAmountTooLow == fees # NoFees /\ fees.isAmountTooLow
isLiquidityInsufficient == fees # NoFees /\ fees.isLiquidityInsufficient

\* the display with the two fee messages in the wrong order
Displayed_liquidityFirst ==
    LET errorMsg == IF error # NoError THEN error
                    ELSE IF isLiquidityInsufficient THEN NoLiquidityMsg
                    ELSE IF isAmountTooLow THEN FeeTooHighMsg
                    ELSE NoMsg
        showError == \/ error # NoError
                     \/ (isAmountTooLow /\ amount > 0)
                     \/ (isLiquidityInsufficient /\ amount > 0)
    IN IF showError THEN errorMsg ELSE NoMsg

\* errorMsg and showError, lines 158-169, and the ErrorBox of line 231:
\* the message on display (an error shows its message), or NoMsg
Displayed ==
    LET errorMsg == IF error # NoError THEN error
                    ELSE IF isAmountTooLow THEN FeeTooHighMsg
                    ELSE IF isLiquidityInsufficient THEN NoLiquidityMsg
                    ELSE NoMsg
        showError == \/ error # NoError
                     \/ (isAmountTooLow /\ amount > 0)
                     \/ (isLiquidityInsufficient /\ amount > 0)
    IN IF showError THEN errorMsg ELSE NoMsg

(***************************************************************************)
(*                 Claims about the fee quote handler                      *)
(***************************************************************************)

\* e is at or before f in the order (blockNumber, transactionIndex, logIndex)
LexLeq(e, f) ==
    \/ e.blockNumber < f.blockNumber
    \/ /\ e.blockNumber = f.blockNumber
       /\ \/ e.transactionIndex < f.transactionIndex
          \/ /\ e.transactionIndex = f.transactionIndex
             /\ e.logIndex <= f.logIndex

\* the returned events whose chain id, as a decimal string, is the requested one
Matching ==
    {returned[i] : i \in {j \in 1..Len(returned) :
                             Str(NatToString(returned[j].chainId)) = query.chainId}}

\* C1: whenever getTokenDetails has picked an event, it is one of the
\* returned events of the requested chain and every such event is at or
\* before it in the order (blockNumber, transactionIndex, logIndex),
\* whatever order the query returned them in.
C1_MostRecentEventWins ==
    selected # NoEvent =>
        /\ selected \in Matching
        /\ \A e \in Matching : LexLeq(e, selected)

\* three matching events were returned, the first returned is not the
\* winner, and the winner shares its block with an event of a lower
\* transaction index and a higher log index
C1_Witness ==
    /\ selected # NoEvent
    /\ Cardinality(Matching) = 3
    /\ returned[1] # selected
    /\ \E e \in Matching :
          /\ e.blockNumber = selected.blockNumber
          /\ e.transactionIndex < selected.transactionIndex
          /\ e.logIndex > selected.logIndex

InvalidQuery ==
    \/ ~isString(query.amount)
    \/ ~isString(query.l2Token)
    \/ ~isString(query.chainId)

\* C2: a request with amount, l2Token or chainId missing or not a string
\* is rejected with the validation error, and in that invocation no
\* whitelist event query is made, the fee computation is not called and
\* nothing is written to the response.
C2_InvalidQueryRejectedFirst ==
    InvalidQuery =>
        /\ queried = 0
        /\ returned = <<>>
        /\ feeCall = NoCall
        /\ response = NoResponse
        /\ apc \in {"start", "rejected"}
        /\ apc = "rejected" => thrown = "Must provide amount and token as query params"

\* the handler has rejected a request whose only fault is the missing amount
C2_Witness ==
    /\ apc = "rejected"
    /\ query.amount = Undefined
    /\ isString(query.l2Token)
    /\ isString(query.chainId)

\* C3: once the whitelist query has returned and none of the returned
\* events carries the requested chain id, the handler has rejected with
\* "No whitelisted token found", the fee computation was not called and no
\* response was written.
C3_NoMatchingEventRejected ==
    (queried > 0 /\ Matching = {}) =>
        /\ apc = "rejected"
        /\ thrown = "No whitelisted token found"
        /\ selected = NoEvent
        /\ feeCall = NoCall
        /\ response = NoResponse

\* the query returned events, all of them of other chains, and the handler
\* rejected
C3_Witness ==
    /\ queried > 0
    /\ Len(returned) >= 2
    /\ Matching = {}
    /\ apc = "rejected"

(***************************************************************************)
(*                 Claims about the CoinSelection form                     *)
(***************************************************************************)

\* the selected token's place in the token list and its balance entry
SelectedIndex ==
    IF selectedItem = NoItem THEN 0 ELSE findIndex(tokenList, selectedItem.address)

SelectedBalance == BalanceAt(balances, SelectedIndex)

\* 0.004 ether in the smallest unit
FeeBuffer == 4 * Pow10(EtherDecimals - 3)

\* what of the selected token's balance can be sent
Available ==
    IF selectedItem.symbol = "ETH" THEN SelectedBalance - FeeBuffer
    ELSE SelectedBalance

\* the text does not parse at the decimals, or parses to a negative value
Unparsable(text, decimals) ==
    \/ ~parseUnits(text, decimals).ok
    \/ parseUnits(text, decimals).value < 0

\* C4: once the effects have run on the current state, with a non-empty
\* input text, a known balance of the selected token and a committed
\* amount above zero, the error is "Insufficient balance." exactly when the
\* amount exceeds the available balance (for ETH, the balance less the
\* 0.004 buffer).
C4_BalanceSufficiency ==
    (/\ Settled
     /\ inputAmount # <<>>
     /\ amount > 0
     /\ selectedItem # NoItem
     /\ balances # NoBalances
     /\ SelectedBalance # NoBalance)
    => (error = InsufficientBalance <=> amount > Available)

\* ETH is selected and the amount is within the balance but not within
\* the balance less the buffer: the error is flagged
C4_Witness ==
    /\ Settled
    /\ inputAmount # <<>>
    /\ selectedItem # NoItem
    /\ selectedItem.symbol = "ETH"
    /\ SelectedBalance # NoBalance
    /\ amount > 0
    /\ amount <= SelectedBalance
    /\ amount > SelectedBalance - FeeBuffer
    /\ error = InsufficientBalance

\* C5: a handleChange with a non-empty text that does not parse at the
\* selected token's decimals, or parses to a negative value, sets the
\* parsing error and changes nothing else but the input text: the
\* committed amount, the stored token and the selected item stay.
C5_ParseFailureKeepsAmount ==
    [][(/\ Settled
        /\ lastEvent' = "handleChange"
        /\ inputAmount' # <<>>
        /\ selectedItem # NoItem
        /\ Unparsable(inputAmount', selectedItem.decimals))
       => (/\ error' = ParsingError
           /\ amount' = amount
           /\ token' = token
           /\ selectedItem' = selectedItem)]_vars

\* "-1" was typed over a committed amount, which is still committed
C5_Witness ==
    /\ lastEvent = "handleChange"
    /\ commits = 0
    /\ inputAmount = <<"-", "1">>
    /\ selectedItem # NoItem
    /\ amount > 0
    /\ error = ParsingError

\* C6: from the moment onSelectedItemChange has run for a defined item
\* until the next event, and so once the effects have settled, the input
\* text is empty, the committed amount is zero, no error is set and the
\* stored token is the selected item's address.
C6_SelectionResets ==
    changed =>
        /\ inputAmount = <<>>
        /\ amount = 0
        /\ error = NoError
        /\ selectedItem # NoItem
        /\ token = selectedItem.address

\* the selection was reset after a change of chain and the effects have
\* settled
C6_Witness ==
    /\ changed
    /\ Settled
    /\ lastEvent = "setChains"
    /\ token = selectedItem.address

\* C7: right after a Max click with balances loaded and a token selected,
\* the committed amount is the selected token's balance (a missing entry
\* counts as zero), for ETH less the buffer and not below zero, and the
\* input text is that amount formatted at the token's decimals, which
\* parses back to it.
C7_MaxSetsAvailableBalance ==
    (/\ lastEvent = "handleMaxClick"
     /\ commits = 0
     /\ balances # NoBalances
     /\ selectedItem # NoItem)
    => /\ amount >= 0
       /\ amount = IF SelectedBalance = NoBalance THEN 0
                   ELSE IF selectedItem.symbol = "ETH"
                        THEN (IF SelectedBalance > FeeBuffer
                              THEN SelectedBalance - FeeBuffer ELSE 0)
                        ELSE SelectedBalance
       /\ inputAmount = formatUnits(amount, selectedItem.decimals)
       /\ parseUnits(inputAmount, selectedItem.decimals) = Parsed(amount)

\* Max on an ETH balance below the buffer commits zero
C7_Witness ==
    /\ lastEvent = "handleMaxClick"
    /\ commits = 0
    /\ selectedItem # NoItem
    /\ selectedItem.symbol = "ETH"
    /\ balances # NoBalances
    /\ SelectedBalance # NoBalance
    /\ SelectedBalance < FeeBuffer
    /\ amount = 0
    /\ inputAmount = <<"0", ".", "0">>

\* C8 as claimed: the display is the explicit error if one is set, else
\* the fee message if the amount is too low, else the liquidity message if
\* liquidity is insufficient, else nothing.
C8_Original ==
    Displayed = IF error # NoError THEN error
                ELSE IF isAmountTooLow THEN FeeTooHighMsg
                ELSE IF isLiquidityInsufficient THEN NoLiquidityMsg
                ELSE NoMsg

\* C8 (amended): the display is the explicit error if one is set; else,
\* only while the committed amount is above zero, the fee message if the
\* amount is too low, else the liquidity message if liquidity is
\* insufficient; else nothing.
C8_DisplayPrecedence ==
    Displayed = IF error # NoError THEN error
                ELSE IF amount > 0 /\ isAmountTooLow THEN FeeTooHighMsg
                ELSE IF amount > 0 /\ isLiquidityInsufficient THEN NoLiquidityMsg
                ELSE NoMsg

\* both fee conditions hold with an amount above zero and no error: the
\* fee message is on display
C8_Witness ==
    /\ error = NoError
    /\ amount > 0
    /\ isAmountTooLow
    /\ isLiquidityInsufficient
    /\ Displayed = FeeTooHighMsg

\* C9: the effects settle within three commits of an event, and once they
\* have, the selected item is the token list's entry with the stored
\* token's address, or the first element when there is none; for a
\* non-empty list the stored token is the selected item's address and is
\* in the list.
C9_SelectionFollowsTokenList ==
    /\ commits <= 3
    /\ Settled =>
          /\ selectedItem = IF find(tokenList, token) # NoItem
                            THEN find(tokenList, token)
                            ELSE IF tokenList # <<>> THEN tokenList[1] ELSE NoItem
          /\ tokenList # <<>> =>
                /\ selectedItem # NoItem
                /\ token = selectedItem.address
                /\ \E i \in 1..Len(tokenList) : tokenList[i] = selectedItem

\* after a change of chain the stored token was not in the new list, and
\* the first element got selected
C9_Witness ==
    /\ Settled
    /\ lastEvent = "setChains"
    /\ changed
    /\ fromChain = 42161
    /\ token = "0xWETH"
    /\ selectedItem = tokenList[1]

\* C10: once the effects of a handleChange have run, a non-empty input
\* text that does not parse at the selected token's decimals leaves the
\* parsing error set.
C10_ParsingErrorKept ==
    (/\ Settled
     /\ lastEvent = "handleChange"
     /\ inputAmount # <<>>
     /\ selectedItem # NoItem
     /\ Unparsable(inputAmount, selectedItem.decimals))
    => error = ParsingError

=============================================================================
